---- MODULE Spec2Model ----
(***************************************************************************)
(* Model of the csv parser of mindship/uniparse (package parser):          *)
(* NewCSV, ToMap, getCSVStructure and recordToMap.                         *)
(*                                                                         *)
(* A Go string is a sequence of one-character strings, so that             *)
(* strings.Split, strings.Join, strings.Replace, strconv.Atoi and          *)
(* strconv.Itoa are computed and not assumed.  A Go map is a function      *)
(* whose DOMAIN is the key set of the map.  The unspecified iteration      *)
(* order of `for k := range example` is a nondeterministic choice of the   *)
(* next key.                                                               *)
(***************************************************************************)
EXTENDS Integers, Sequences, FiniteSets

(***************************************************************************)
(* Bounds of the model.                                                    *)
(***************************************************************************)
MaxRecords == 2

(***************************************************************************)
(* Characters and strings.                                                 *)
(***************************************************************************)
Quote == "\""

Digits == <<"0", "1", "2", "3", "4", "5", "6", "7", "8", "9">>

IsDigit(c) == \E d \in 1..Len(Digits) : Digits[d] = c

\* strings.Replace(v, "\"", "", 1): only the first quote is removed
ReplaceFirst(v) ==
    IF \A i \in 1..Len(v) : v[i] # Quote
    THEN v
    ELSE LET i == CHOOSE j \in 1..Len(v) :
                     v[j] = Quote /\ \A h \in 1..(j - 1) : v[h] # Quote
         IN  SubSeq(v, 1, i - 1) \o SubSeq(v, i + 1, Len(v))

\* strings.Replace(v, "\"", "", -1)
Replace(v) == SelectSeq(v, LAMBDA c : c # Quote)

\* strings.Split(s, sep), sep a single character
RECURSIVE Split(_, _)
Split(s, sep) ==
    IF \A i \in 1..Len(s) : s[i] # sep
    THEN <<s>>
    ELSE LET i == CHOOSE j \in 1..Len(s) :
                     s[j] = sep /\ \A h \in 1..(j - 1) : s[h] # sep
         IN  <<SubSeq(s, 1, i - 1)>> \o Split(SubSeq(s, i + 1, Len(s)), sep)

\* strings.Join(parts, sep)
RECURSIVE Join(_, _)
Join(parts, sep) ==
    IF Len(parts) = 0 THEN <<>>
    ELSE IF Len(parts) = 1 THEN parts[1]
    ELSE parts[1] \o <<sep>> \o Join(Tail(parts), sep)

\* strconv.Atoi(s) returns a nil error: an optional sign, then one or more
\* decimal digits
AtoiOk(s) ==
    LET body == IF Len(s) > 0 /\ s[1] \in {"-", "+"} THEN Tail(s) ELSE s
    IN  Len(body) >= 1 /\ \A i \in 1..Len(body) : IsDigit(body[i])

\* strconv.Itoa(n), n >= 0
RECURSIVE Itoa(_)
Itoa(n) ==
    IF n < 10 THEN <<Digits[n + 1]>>
    ELSE Itoa(n \div 10) \o <<Digits[(n % 10) + 1]>>

(***************************************************************************)
(* Go maps.                                                                *)
(***************************************************************************)
EmptyMap == [k \in {} |-> <<>>]

Has(m, k) == k \in DOMAIN m

Put(m, k, v) == [x \in (DOMAIN m) \cup {k} |-> IF x = k THEN v ELSE m[x]]

\* record[key] of a map[string]string: the zero value "" when key is absent
Lookup(m, k) == IF Has(m, k) THEN m[k] ELSE <<>>

(***************************************************************************)
(* NewCSV: the defaults of the options.                                    *)
(***************************************************************************)
NewCSV(o) ==
    [ArrayDelimiter |-> IF o.ArrayDelimiter = "" THEN "." ELSE o.ArrayDelimiter,
     IndexPos       |-> IF o.IndexPos = 0 THEN 1 ELSE o.IndexPos]

(***************************************************************************)
(* getCSVStructure: one iteration of `for k := range example`.             *)
(***************************************************************************)
StructureStep(rs, k, o) ==
    LET keyParts == Split(k, o.ArrayDelimiter)
        indexPos == o.IndexPos
    IN  IF Len(keyParts) <= indexPos
        THEN Put(rs, k, <<>>)
        ELSE IF AtoiOk(keyParts[indexPos + 1])
        THEN LET key    == Join(SubSeq(keyParts, 1, indexPos), o.ArrayDelimiter)
                 subKey == Join(SubSeq(keyParts, indexPos + 2, Len(keyParts)),
                                o.ArrayDelimiter)
             IN  IF ~Has(rs, key)
                 THEN Put(rs, key, <<subKey>>)
                 ELSE IF \E i \in 1..Len(rs[key]) : rs[key][i] = subKey
                 THEN rs
                 ELSE Put(rs, key, Append(rs[key], subKey))
        ELSE Put(rs, k, <<>>)

(***************************************************************************)
(* recordToMap.                                                            *)
(***************************************************************************)
\* the composite key with the index counted from 1
RecordKeyFromOne(key, index, subKey, o) ==
    Join(<<key, Itoa(index + 1), subKey>>, o.ArrayDelimiter)

RecordKey(key, index, subKey, o) ==
    Join(<<key, Itoa(index), subKey>>, o.ArrayDelimiter)

\* the first loop: the length of the slice, probed with subKeys[0]
RECURSIVE ProbeLength(_, _, _, _, _)
ProbeLength(record, key, subKey, length, o) ==
    IF ~Has(record, RecordKey(key, length, subKey, o))
    THEN length
    ELSE ProbeLength(record, key, subKey, length + 1, o)

\* the inner loop of one subKey going on past a missing index, up to the
\* length of the slice
RECURSIVE FillSubKeyPastGaps(_, _, _, _, _, _)
FillSubKeyPastGaps(keyData, record, key, subKey, index, o) ==
    LET recordKey == RecordKey(key, index, subKey, o)
    IN  IF index >= Len(keyData)
        THEN [panic |-> FALSE, keyData |-> keyData]
        ELSE IF ~Has(record, recordKey)
        THEN FillSubKeyPastGaps(keyData, record, key, subKey, index + 1, o)
        ELSE FillSubKeyPastGaps(
                 [keyData EXCEPT ![index + 1] = Put(@, subKey, record[recordKey])],
                 record, key, subKey, index + 1, o)

\* the inner loop of one subKey, from index on; keyData[index] past the end
\* of the slice is a run-time panic (index out of range)
RECURSIVE FillSubKey(_, _, _, _, _, _)
FillSubKey(keyData, record, key, subKey, index, o) ==
    LET recordKey == RecordKey(key, index, subKey, o)
    IN  IF ~Has(record, recordKey)
        THEN [panic |-> FALSE, keyData |-> keyData]
        ELSE IF index >= Len(keyData)
        THEN [panic |-> TRUE, keyData |-> keyData]
        ELSE FillSubKey(
                 [keyData EXCEPT ![index + 1] = Put(@, subKey, record[recordKey])],
                 record, key, subKey, index + 1, o)

\* `for _, subKey := range subKeys`, from the n-th subKey on
RECURSIVE FillSubKeys(_, _, _, _, _, _)
FillSubKeys(keyData, record, key, subKeys, n, o) ==
    IF n > Len(subKeys)
    THEN [panic |-> FALSE, keyData |-> keyData]
    ELSE LET r == FillSubKey(keyData, record, key, subKeys[n], 0, o)
         IN  IF r.panic THEN r
             ELSE FillSubKeys(r.keyData, record, key, subKeys, n + 1, o)

\* the array of one array-typed key
KeyData(record, key, subKeys, o) ==
    LET length == ProbeLength(record, key, subKeys[1], 0, o)
    IN  FillSubKeys([i \in 1..length |-> EmptyMap], record, key, subKeys, 1, o)

\* The values of the result are interface{}: a string or a []map[string]string.
Scalar(v) == [kind |-> "string", val |-> v]

Array(d) == [kind |-> "slice", val |-> d]

\* recordToMap: whichever order recordStructure is ranged over, the call
\* panics iff some array-typed key panics, and the resulting map is the same
recordToMap(rs, record, o) ==
    LET arrays == {key \in DOMAIN rs : Len(rs[key]) # 0}
        filled == [key \in arrays |-> KeyData(record, key, rs[key], o)]
    IN  [panic     |-> \E key \in arrays : filled[key].panic,
         recordMap |-> [key \in DOMAIN rs |->
                           IF Len(rs[key]) = 0
                           THEN Scalar(Lookup(record, key))
                           ELSE Array(filled[key].keyData)]]

(***************************************************************************)
(* getCSVStructure: the structures it can return, one for each order in    *)
(* which `for k := range example` can visit the keys.                      *)
(***************************************************************************)
RECURSIVE RangeOver(_, _, _)
RangeOver(rs, keys, o) ==
    IF keys = {} THEN {rs}
    ELSE UNION { RangeOver(StructureStep(rs, k, o), keys \ {k}, o) : k \in keys }

getCSVStructure(example, o) == RangeOver(EmptyMap, DOMAIN example, o)

(***************************************************************************)
(* The inputs: column names, cell values, records and batches.             *)
(***************************************************************************)
ArrayKeys ==
    { <<"a", ".", "0", ".", "x">>, <<"a", ".", "0", ".", "y">>,
      <<"a", ".", "1", ".", "x">>, <<"a", ".", "1", ".", "y">> }

EdgeKeys ==
    { <<"a">>, <<"b">>,
      <<"a", ".", "0">>,
      <<"a", ".", "0", ".", "x">>,
      <<"a", ".", "b", ".", "c">>,
      <<"a", ".", "-", "1", ".", "c">> }

\* a cell holds its row number and its column name; in a quoted batch the
\* row number is quoted
CellValue(row, k, quoted) ==
    IF quoted THEN <<Quote>> \o Itoa(row) \o <<Quote>> \o k ELSE Itoa(row) \o k

\* the batches of up to MaxRecords records whose key sets are taken from keySets
Batches(keySets) ==
    { [row \in 1..Len(keys) |-> [k \in keys[row] |-> CellValue(row, k, quoted)]] :
        keys \in UNION { [1..n -> keySets] : n \in 0..MaxRecords },
        quoted \in BOOLEAN }

\* records of any of the array columns
ArrayKeySets == SUBSET ArrayKeys

\* records of at most two of the edge-case columns
EdgeKeySets == {{}} \cup { {k1, k2} : k1 \in EdgeKeys, k2 \in EdgeKeys }

DefaultOptions == NewCSV([ArrayDelimiter |-> "", IndexPos |-> 0])

OptionsGiven ==
    { NewCSV([ArrayDelimiter |-> d, IndexPos |-> p]) :
        <<d, p>> \in {"", "-"} \X {0, 2} }

(***************************************************************************)
(* The state.                                                              *)
(***************************************************************************)
VARIABLES
    options,          \* c.options
    input,            \* the batch as the caller built it, before any call
    csvData,          \* the batch handed to ToMap (mutated in place)
    pc,               \* "idle", "assemble", "done", "panicked"
    recordStructure,  \* ToMap's recordStructure
    res,              \* ToMap's res
    err,              \* ToMap's returned error
    previous          \* the recordStructure of the call before, if any

vars == <<options, input, csvData, pc, recordStructure, res, err, previous>>

InitWith(opts, batches) ==
    /\ options \in opts
    /\ csvData \in batches
    /\ input = csvData
    /\ pc = "idle"
    /\ recordStructure = EmptyMap
    /\ res = <<>>
    /\ err = "nil"
    /\ previous = {}

\* the default convention, arrays of up to two entries of two sub-fields
Init == InitWith({DefaultOptions}, Batches(ArrayKeySets))

\* the conventions NewCSV can give, scalar and edge-case column names
InitConv == InitWith(OptionsGiven, Batches(EdgeKeySets))

\* ToMap up to the loop that creates the map: the cleanup of the quotes, then
\* getCSVStructure(csvData[0]); csvData[0] of an empty batch is a run-time
\* panic (index out of range).  The program calls ToMap on a batch once or
\* twice.
ToMap ==
    /\ pc = "idle" \/ (pc = "done" /\ previous = {})
    /\ previous' = IF pc = "done" THEN {recordStructure} ELSE {}
    /\ csvData' = [i \in 1..Len(csvData) |->
                      [k \in DOMAIN csvData[i] |-> Replace(csvData[i][k])]]
    /\ res' = <<>>
    /\ IF Len(csvData) = 0
       THEN /\ pc' = "panicked"
            /\ recordStructure' = EmptyMap
       ELSE /\ pc' = "assemble"
            /\ recordStructure' \in getCSVStructure(csvData'[1], options)
    /\ UNCHANGED <<options, input, err>>

\* the loop `for _, record := range csvData` from the n-th record on: res, or
\* the panic of a recordToMap
RECURSIVE CreateMaps(_, _, _, _, _)
CreateMaps(acc, rs, data, n, o) ==
    IF n > Len(data)
    THEN [panic |-> FALSE, res |-> acc]
    ELSE LET r == recordToMap(rs, data[n], o)
         IN  IF r.panic
             THEN [panic |-> TRUE, res |-> acc]
             ELSE CreateMaps(Append(acc, r.recordMap), rs, data, n + 1, o)

\* ToMap from the loop that creates the map to the return
Assemble ==
    /\ pc = "assemble"
    /\ LET r == CreateMaps(<<>>, recordStructure, csvData, 1, options)
       IN  /\ res' = r.res
           /\ pc' = IF r.panic THEN "panicked" ELSE "done"
    /\ err' = "nil"
    /\ UNCHANGED <<options, input, csvData, recordStructure, previous>>

Next == ToMap \/ Assemble

Spec == Init /\ [][Next]_vars

SpecConv == InitConv /\ [][Next]_vars

(***************************************************************************)
(* Vocabulary of the properties.                                           *)
(***************************************************************************)
Rows == 1..Len(csvData)

\* getCSVStructure has returned in the running or in the last call
Inferred == pc \in {"assemble", "done", "panicked"} /\ Len(csvData) > 0

\* the call has ended, by a return or by a panic
Ended == pc \in {"done", "panicked"}

Segments(k) == Split(k, options.ArrayDelimiter)

\* the composite key g<d>i<d>f
Composite(g, i, f) ==
    g \o <<options.ArrayDelimiter>> \o Itoa(i) \o <<options.ArrayDelimiter>> \o f

ArrayTyped(g) == Has(recordStructure, g) /\ Len(recordStructure[g]) > 0

SubFields(g) == {recordStructure[g][n] : n \in 1..Len(recordStructure[g])}

\* the number of consecutive indices 0, 1, 2, ... at which the record holds
\* the composite key of (g, index, f)
Consecutive(record, g, f) ==
    CHOOSE n \in 0..Cardinality(DOMAIN record) :
        /\ \A j \in 0..(n - 1) : Has(record, Composite(g, j, f))
        /\ ~Has(record, Composite(g, n, f))

\* a base-10 non-negative integer: one or more digits
NonNegativeInteger(seg) ==
    Len(seg) > 0 /\ \A i \in 1..Len(seg) : seg[i] \in {Digits[d] : d \in 1..Len(Digits)}

\* v with every quote character left out
RECURSIVE WithoutQuotes(_)
WithoutQuotes(v) ==
    IF Len(v) = 0 THEN <<>>
    ELSE IF Head(v) = Quote THEN WithoutQuotes(Tail(v))
    ELSE <<Head(v)>> \o WithoutQuotes(Tail(v))

\* the flat input record r as a nested record: same keys, quotes left out
Flat(r) == [k \in DOMAIN input[r] |-> Scalar(WithoutQuotes(input[r][k]))]

\* the record has only keys without the delimiter
PlainKeys(record) ==
    \A k \in DOMAIN record : \A i \in 1..Len(k) : k[i] # options.ArrayDelimiter

GroupNames == { <<"a">>, <<"b">> }

SubFieldNames == { <<"x">>, <<"y">>, <<"c">> }

\* the keys g<d>i<d>f for every index i in 0..n-1 and every f in F
GridKeys(g, n, F) == { Composite(g, i, f) : i \in 0..(n - 1), f \in F }

\* the output the array grouping asks for: the single key g, n sub-objects
GridMap(record, g, n, F) ==
    [k \in {g} |->
        Array([i \in 1..n |-> [f \in F |-> record[Composite(g, i - 1, f)]]])]

(***************************************************************************)
(* C1.  ToMap of a batch of zero records returns the empty-batch error to  *)
(* the caller: it neither panics nor returns an empty success.             *)
(* Stated as the claim has it; the code indexes csvData[0] and panics.     *)
(***************************************************************************)
C1_EmptyBatchReturnsError ==
    (Len(csvData) = 0 /\ pc # "idle") => (pc = "done" /\ err # "nil")

(***************************************************************************)
(* C2.  Array grouping: when the keys of the example record are exactly    *)
(* g<d>i<d>f for i in 0..n-1 and f in F (n >= 1, F not empty, indexPos 1), *)
(* the output of that record is the map with the single key g whose value  *)
(* is the sequence of n sub-objects, sub-object i mapping every f of F to  *)
(* the value of the record at g<d>i<d>f (quotes cleaned up), whatever the  *)
(* order in which the keys of the example were ranged over.  The output of *)
(* the record is the map assembled for it, res[1].                         *)
(***************************************************************************)
C2_ArrayGrouping ==
    (Ended /\ Len(csvData) > 0 /\ options.IndexPos = 1) =>
        \A g \in GroupNames, n \in 1..Cardinality(DOMAIN csvData[1]),
           F \in (SUBSET SubFieldNames) \ {{}} :
            DOMAIN csvData[1] = GridKeys(g, n, F) =>
                /\ Len(res) >= 1
                /\ res[1] = GridMap(csvData[1], g, n, F)
                /\ res[1] = GridMap([k \in DOMAIN input[1] |->
                                        WithoutQuotes(input[1][k])], g, n, F)

\* the example of the specification, ranged over so that y is seen first
C2_Witness ==
    /\ pc = "done"
    /\ Len(csvData) > 0
    /\ DOMAIN csvData[1] = GridKeys(<<"a">>, 2, {<<"x">>, <<"y">>})
    /\ recordStructure[<<"a">>] = << <<"y">>, <<"x">> >>
    /\ Len(res[1][<<"a">>].val) = 2
    /\ \E k \in DOMAIN input[1] : input[1][k] # csvData[1][k]

(***************************************************************************)
(* C3.  Ragged arrays: the structure inferred from the first record        *)
(* applies to every later record, and for each array-typed group key the   *)
(* output array of a record has as many entries as there are consecutive   *)
(* indices 0, 1, 2, ... at which the record holds the composite key of the *)
(* first sub-field; a record with fewer entries than the example yields a  *)
(* shorter array with no error.  Stated for a first record that has both   *)
(* entries of both sub-fields; a later record that has lost a.1.x but not  *)
(* a.1.y panics (C9) where the claim promises an array of length 1.        *)
(***************************************************************************)
C3_RaggedArrays ==
    (Ended /\ Len(csvData) > 0
           /\ DOMAIN csvData[1] = GridKeys(<<"a">>, 2, {<<"x">>, <<"y">>})) =>
        /\ pc = "done"
        /\ Len(res) = Len(csvData)
        /\ \A r \in Rows : \A g \in DOMAIN recordStructure :
              ArrayTyped(g) =>
                  /\ res[r][g].kind = "slice"
                  /\ Len(res[r][g].val) =
                         Consecutive(csvData[r], g, recordStructure[g][1])

(***************************************************************************)
(* C4.  Idempotent structure: inferring the structure twice from the same  *)
(* example record yields identical descriptors (same group keys, same      *)
(* classification, same ordered sub-field sequences), whatever the order   *)
(* in which the keys of the example are ranged over.  Stated as the claim  *)
(* has it; the order of the sub-fields follows the order of the range.     *)
(***************************************************************************)
C4_IdempotentStructure ==
    (previous # {} /\ Inferred) => previous = {recordStructure}

(***************************************************************************)
(* C5.  Coincidental delimiter: every key of the example that has more     *)
(* than indexPos segments and whose segment at indexPos is not a base-10   *)
(* non-negative integer is registered, whole, as a scalar group key, and   *)
(* does not make its prefix an array-typed group key.  Stated as the claim *)
(* has it; strconv.Atoi accepts the segment -1.                            *)
(***************************************************************************)
C5_CoincidentalDelimiter ==
    Inferred =>
        \A k \in DOMAIN csvData[1] :
            LET parts  == Segments(k)
                prefix == Join(SubSeq(parts, 1, options.IndexPos),
                               options.ArrayDelimiter)
            IN  (/\ Len(parts) > options.IndexPos
                 /\ ~NonNegativeInteger(parts[options.IndexPos + 1])) =>
                    /\ Has(recordStructure, k)
                    /\ recordStructure[k] = <<>>
                    /\ ArrayTyped(prefix) =>
                           \E k2 \in DOMAIN csvData[1] :
                               /\ Len(Segments(k2)) > options.IndexPos
                               /\ NonNegativeInteger(Segments(k2)[options.IndexPos + 1])
                               /\ Join(SubSeq(Segments(k2), 1, options.IndexPos),
                                       options.ArrayDelimiter) = prefix

(***************************************************************************)
(* C6.  Array detection needs the index position strictly inside the key:  *)
(* a key whose segment at indexPos is its last segment (a.0 with           *)
(* delimiter . and indexPos 1) is not registered as array-typed, it is a   *)
(* scalar field and its value appears in the output under that key.        *)
(* Stated as the claim has it; the code registers a with the sub-field "". *)
(***************************************************************************)
C6_IndexAtTheEndIsScalar ==
    Inferred =>
        \A k \in DOMAIN csvData[1] :
            Len(Segments(k)) = options.IndexPos + 1 =>
                /\ Has(recordStructure, k)
                /\ recordStructure[k] = <<>>
                /\ pc = "done" => res[1][k] = Scalar(csvData[1][k])

(***************************************************************************)
(* C7.  Scalar identity, as claimed: for every record of a batch that has  *)
(* only keys without the delimiter, the output of that record is the flat  *)
(* input record, with the quotes removed from the values.  It fails for a  *)
(* record whose keys are not those of the first record.                    *)
(***************************************************************************)
C7_ScalarIdentity ==
    pc = "done" => \A r \in Rows : PlainKeys(input[r]) => res[r] = Flat(r)

(***************************************************************************)
(* C7, amended.  For every record that has only keys without the delimiter *)
(* and has the key set of the first record of the batch, ToMap returns and *)
(* the output of that record is the flat input record, with the quotes     *)
(* removed from the values.                                                *)
(***************************************************************************)
C7_ScalarIdentityOnExampleKeys ==
    Ended =>
        \A r \in Rows :
            (PlainKeys(input[r]) /\ DOMAIN input[r] = DOMAIN input[1]) =>
                (pc = "done" /\ res[r] = Flat(r))

\* a second record of two quoted scalar cells, with the keys of the first
C7_Witness ==
    /\ pc = "done"
    /\ Len(csvData) = 2
    /\ PlainKeys(input[2])
    /\ DOMAIN input[2] = DOMAIN input[1]
    /\ Cardinality(DOMAIN input[2]) = 2
    /\ \A k \in DOMAIN input[2] : input[2][k] # res[2][k].val

(***************************************************************************)
(* C8.  Order preservation: for a non-empty batch of N records ToMap       *)
(* returns exactly N nested records, the one at position i being the       *)
(* assembly of the input record at position i under the shared structure.  *)
(* Stated as the claim has it; the panic of C9 ends the call with no       *)
(* records returned.                                                       *)
(***************************************************************************)
C8_OrderPreservation ==
    (Ended /\ Len(csvData) > 0) =>
        /\ pc = "done"
        /\ Len(res) = Len(csvData)
        /\ \A r \in Rows :
              res[r] = recordToMap(recordStructure, csvData[r], options).recordMap

(***************************************************************************)
(* C9.  A record that holds, for an array-typed group key, the composite   *)
(* key of a non-first sub-field at an index at or past the array length    *)
(* given by the first sub-field is assembled without error or crash, and   *)
(* the array keeps the length given by the first sub-field, whichever      *)
(* sub-field comes first.  Stated as the claim has it; keyData[index]      *)
(* panics when the non-first sub-field is present at every index up to     *)
(* the length.                                                             *)
(***************************************************************************)
Stray(r, g) ==
    \E n \in 2..Len(recordStructure[g]), i \in 0..Cardinality(DOMAIN csvData[r]) :
        /\ i >= Consecutive(csvData[r], g, recordStructure[g][1])
        /\ Has(csvData[r], Composite(g, i, recordStructure[g][n]))

C9_StrayIndexOmitted ==
    (Ended /\ Len(csvData) > 0) =>
        \A r \in Rows : \A g \in DOMAIN recordStructure :
            (ArrayTyped(g) /\ Stray(r, g)) =>
                /\ pc = "done"
                /\ Len(res[r][g].val) =
                       Consecutive(csvData[r], g, recordStructure[g][1])

(***************************************************************************)
(* C10.  Per-sub-field filling, as claimed: for every array-typed group    *)
(* key, sub-field f and index i below the array length, sub-object i has f *)
(* set to the value of the record if the composite key of (group key, i,   *)
(* f) exists in the record and has f unset if it does not; a missing key   *)
(* at an index j < i does not prevent f from being set at index i.         *)
(***************************************************************************)
C10_PerSubFieldFilling ==
    pc = "done" =>
        \A r \in Rows : \A g \in DOMAIN recordStructure :
            ArrayTyped(g) =>
                \A f \in SubFields(g), i \in 1..Len(res[r][g].val) :
                    LET ck  == Composite(g, i - 1, f)
                        obj == res[r][g].val[i]
                    IN  IF Has(csvData[r], ck)
                        THEN Has(obj, f) /\ obj[f] = csvData[r][ck]
                        ELSE ~Has(obj, f)

(***************************************************************************)
(* C10, amended.  For every array-typed group key, sub-field f and index i *)
(* below the length of an output array, sub-object i has f set, to the     *)
(* value of the record, if the record holds the composite key of (group    *)
(* key, j, f) for every j in 0..i, and has f unset otherwise: a missing    *)
(* key at an index j < i does prevent f from being set at index i.         *)
(***************************************************************************)
C10_FillingUpToFirstGap ==
    pc = "done" =>
        \A r \in Rows : \A g \in DOMAIN recordStructure :
            ArrayTyped(g) =>
                \A f \in SubFields(g), i \in 1..Len(res[r][g].val) :
                    LET ck  == Composite(g, i - 1, f)
                        obj == res[r][g].val[i]
                    IN  IF \A j \in 0..(i - 1) : Has(csvData[r], Composite(g, j, f))
                        THEN Has(obj, f) /\ obj[f] = csvData[r][ck]
                        ELSE ~Has(obj, f)

\* an array of two entries whose second sub-field is missing at index 0 and
\* present at index 1: it stays unset in both sub-objects
C10_Witness ==
    /\ pc = "done"
    /\ \E r \in Rows : \E g \in DOMAIN recordStructure :
          /\ ArrayTyped(g)
          /\ Len(recordStructure[g]) = 2
          /\ Len(res[r][g].val) = 2
          /\ ~Has(csvData[r], Composite(g, 0, recordStructure[g][2]))
          /\ Has(csvData[r], Composite(g, 1, recordStructure[g][2]))
          /\ ~Has(res[r][g].val[2], recordStructure[g][2])
          /\ Has(res[r][g].val[2], recordStructure[g][1])

====
